---- MODULE Spec2Model ----
(***************************************************************************)
(* The human-in-the-loop investigation workflow of ein-agent-worker        *)
(* (HumanInLoopWorkflow, workflows/human_in_loop.py) as a state machine.   *)
(*                                                                         *)
(* One workflow instance is modelled.  Its signal handlers                 *)
(* (start_execution, provide_action, end_workflow) run to completion and   *)
(* may be delivered at any time, duplicated; its run coroutine advances    *)
(* from one await to the next in atomic steps, because the workflow host   *)
(* runs handlers and the coroutine on one cooperative event loop.          *)
(***************************************************************************)
EXTENDS Integers, Sequences, FiniteSets, TLC

\* ------------------------------------------------------------------ bounds

\* Turn budget of the conversation loop.  The code uses 50
\* (human_in_loop.py:244); the model runs the same loop with a small budget.
MaxIterations == 3

\* Number of provide_action deliveries, first deliveries and redeliveries
\* together.
MaxDeliveries == 3

\* ------------------------------------------------------------------ values

\* Python's None for the Optional[str] fields.
None == "None"

\* The local variable agent_response before its first assignment.
Unbound == "<unbound>"

\* self.pending_action = None
NoAction == [action_type |-> None, content |-> None, delivery |-> 0]

\* self.final_report = None / run() has not returned
NoReport == [kind |-> None, text |-> None]

\* user_prompt values carried by start_execution.
Prompts == {"p1", "p2"}

\* The k-th distinct action the operator sends: action_type is one of text,
\* tool_result, approval or an unlisted type, content is a string.
OperatorActions ==
    <<[action_type |-> "text", content |-> "a1", delivery |-> 0],
      [action_type |-> "tool_result", content |-> "a2", delivery |-> 0],
      [action_type |-> "approval", content |-> "a3", delivery |-> 0],
      [action_type |-> "other", content |-> "a4", delivery |-> 0]>>

\* final_output strings the agent runner can return.
\*   need_input : {"type": "NEED_HUMAN_INPUT", "question": "q", ...}
\*   other_json : a JSON object without type NEED_HUMAN_INPUT
\*   json_value : valid JSON that is not an object (a number, a list)
\*   prose      : text that is not JSON
Replies == {"need_input", "other_json", "json_value", "prose"}

\* json.loads(agent_response): a decode error, an object or another value.
JsonLoads(r) ==
    CASE r = "need_input" -> [ok |-> TRUE, dict |-> TRUE, type |-> "NEED_HUMAN_INPUT",
                              question |-> "q", suggested_tools |-> <<"tool">>,
                              findings_so_far |-> <<"finding">>]
      [] r = "other_json" -> [ok |-> TRUE, dict |-> TRUE, type |-> None,
                              question |-> None, suggested_tools |-> <<>>,
                              findings_so_far |-> <<>>]
      [] r = "json_value" -> [ok |-> TRUE, dict |-> FALSE, type |-> None,
                              question |-> None, suggested_tools |-> <<>>,
                              findings_so_far |-> <<>>]
      [] OTHER            -> [ok |-> FALSE, dict |-> FALSE, type |-> None,
                              question |-> None, suggested_tools |-> <<>>,
                              findings_so_far |-> <<>>]

\* str(e) of the exceptions the run can raise.
ErrDiscovery == "ActivityError: get_available_mcp_servers"
ErrNotDict == "AttributeError: response_data has no attribute 'get'"
ErrNoAction == "AttributeError: 'NoneType' object has no attribute 'get'"
ErrUnbound == "UnboundLocalError: agent_response"

\* ------------------------------------------------------------------ state

VARIABLES
    state,               \* self.state
    user_prompt,         \* self.user_prompt
    current_question,    \* self.current_question
    suggested_mcp_tools, \* self.suggested_mcp_tools
    findings,            \* self.findings
    final_report,        \* self.final_report
    error_message,       \* self.error_message
    pending_action,      \* self.pending_action
    action_received,     \* self.action_received (asyncio.Event)
    should_end,          \* self.should_end
    execution_started,   \* self.execution_started
    pc,                  \* the await the run coroutine is suspended at
    conversation_history,\* local of _execute_with_human_loop
    iteration,           \* turns of the for loop already consumed
    agent_response,      \* local of _execute_with_human_loop
    result,              \* value returned by run()
    delivered,           \* history: every provide_action delivery, in order
    folded,              \* history: deliveries folded into the transcript
    queried              \* a get_status query has been answered

\* The workflow instance and its run coroutine.
instance == <<state, user_prompt, current_question, suggested_mcp_tools,
              findings, final_report, error_message, pending_action,
              action_received, should_end, execution_started, pc,
              conversation_history, iteration, agent_response, result,
              delivered, folded>>

\* The command-line session (ein-agent-cli) and the workflow host as the
\* session sees it.
VARIABLES
    cli,                 \* the orchestrator: where it waits, its loop locals
    session,             \* SessionState
    saved,               \* the SessionState the session file holds
    remote,              \* workflow id -> the run the workflow host holds
    config,              \* HumanInLoopConfig
    rpcs,                \* the RPCs issued by the latest step, in order
    console              \* the error or warning printed by the latest step

client == <<cli, session, saved, remote, config, rpcs, console>>

\* One call of a function of the command-line tool that reads no state
\* but its arguments.
VARIABLES
    call,                \* the function called and its arguments
    returned             \* whether it has returned, and the value

library == <<call, returned>>

\* What lies outside the instance: the clients of its queries.
outside == <<queried, client, library>>

vars == <<instance, outside>>

\* Mutant of Constructed: the constructor starts the instance in executing with an
\* empty-string question.
ConstructedAlreadyExecuting ==
    /\ state = "executing"
    /\ user_prompt = None
    /\ current_question = ""
    /\ suggested_mcp_tools = <<>>
    /\ findings = <<>>
    /\ final_report = NoReport
    /\ error_message = None
    /\ pending_action = NoAction
    /\ action_received = FALSE
    /\ should_end = FALSE
    /\ execution_started = FALSE
    /\ pc = "wait_start"
    /\ conversation_history = <<>>
    /\ iteration = 0
    /\ agent_response = Unbound
    /\ result = NoReport
    /\ delivered = <<>>
    /\ folded = <<>>

\* __init__: the instance as the workflow host constructs it.
Constructed ==
    /\ state = "pending"
    /\ user_prompt = None
    /\ current_question = None
    /\ suggested_mcp_tools = <<>>
    /\ findings = <<>>
    /\ final_report = NoReport
    /\ error_message = None
    /\ pending_action = NoAction
    /\ action_received = FALSE
    /\ should_end = FALSE
    /\ execution_started = FALSE
    /\ pc = "wait_start"
    /\ conversation_history = <<>>
    /\ iteration = 0
    /\ agent_response = Unbound
    /\ result = NoReport
    /\ delivered = <<>>
    /\ folded = <<>>

\* No command-line session is attached: the client's variables keep the
\* values of a session that was never opened.
NoSession ==
    /\ cli = [pc |-> "not_running", workflow_id |-> None, iteration |-> 0,
              created |-> 0]
    /\ session = [contexts |-> <<>>, current_context_id |-> None,
                  current_workflow_id |-> None]
    /\ saved = session
    /\ remote = <<>>
    /\ config = [workflow_id |-> None]
    /\ rpcs = <<>>
    /\ console = None

\* No function call is being followed.
NoCall ==
    /\ call = [fn |-> "none"]
    /\ returned = [done |-> FALSE, value |-> <<>>]

Init ==
    /\ Constructed
    /\ queried = FALSE
    /\ NoSession
    /\ NoCall

\* get_status(): the query's return value.
get_status ==
    [state |-> state,
     current_question |-> current_question,
     suggested_mcp_tools |-> suggested_mcp_tools,
     findings |-> findings,
     final_report |-> final_report,
     error_message |-> error_message]

\* Mutant of GetStatus: the query handler also sets the action_received
\* event.
GetStatusWakes ==
    /\ queried' = TRUE
    /\ action_received' = TRUE
    /\ UNCHANGED <<state, user_prompt, current_question, suggested_mcp_tools,
                   findings, final_report, error_message, pending_action,
                   should_end, execution_started, pc, conversation_history,
                   iteration, agent_response, result, delivered, folded>>
    /\ UNCHANGED <<client, library>>

\* A client's get_status query is answered with the value get_status: the
\* handler reads the fields and assigns nothing.  The handler keeps no
\* record of queries, so only the fact that one was answered is kept.
GetStatus ==
    /\ queried' = TRUE
    /\ UNCHANGED instance
    /\ UNCHANGED <<client, library>>

\* ------------------------------------------------------- signal handlers

\* Mutant of StartExecution: the handler itself moves the instance to
\* executing.
StartExecutionEntersExecuting ==
    \E p \in Prompts :
        /\ user_prompt' = p
        /\ execution_started' = TRUE
        /\ state' = "executing"
        /\ UNCHANGED <<current_question, suggested_mcp_tools, findings,
                       final_report, error_message, pending_action,
                       action_received, should_end, pc, conversation_history,
                       iteration, agent_response, result, delivered, folded,
                       outside>>

\* start_execution(execution_input): no guard, overwrites user_prompt.
StartExecution ==
    \E p \in Prompts :
        /\ user_prompt' = p
        /\ execution_started' = TRUE
        /\ UNCHANGED <<state, current_question, suggested_mcp_tools, findings,
                       final_report, error_message, pending_action,
                       action_received, should_end, pc, conversation_history,
                       iteration, agent_response, result, delivered, folded,
                       outside>>

\* The body of provide_action(action), with the delivery recorded: what was
\* delivered, the state the instance was in, and whether it is a redelivery.
Deliver(action, dup) ==
    /\ pending_action' = [action EXCEPT !.delivery = Len(delivered) + 1]
    /\ action_received' = TRUE
    /\ delivered' = Append(delivered,
                           [action_type |-> action.action_type,
                            content |-> action.content,
                            at |-> state,
                            dup |-> dup])
    /\ UNCHANGED <<state, user_prompt, current_question, suggested_mcp_tools,
                   findings, final_report, error_message, should_end,
                   execution_started, pc, conversation_history, iteration,
                   agent_response, result, folded,
                   outside>>

\* Number of distinct actions sent so far.
Sent == Cardinality({i \in 1..Len(delivered) : ~delivered[i].dup})

\* provide_action(action) with an action the operator has not sent before.
ProvideAction ==
    /\ Len(delivered) < MaxDeliveries
    /\ Sent < Len(OperatorActions)
    /\ Deliver(OperatorActions[Sent + 1], FALSE)

\* provide_action(action) delivered again by the host (at-least-once).
RedeliverAction ==
    /\ Len(delivered) < MaxDeliveries
    /\ \E k \in 1..Sent : Deliver(OperatorActions[k], TRUE)

\* Mutant of EndWorkflow: the handler itself marks the instance completed.
EndWorkflowCompletes ==
    /\ should_end' = TRUE
    /\ action_received' = TRUE
    /\ state' = "completed"
    /\ UNCHANGED <<user_prompt, current_question, suggested_mcp_tools,
                   findings, final_report, error_message, pending_action,
                   execution_started, pc, conversation_history, iteration,
                   agent_response, result, delivered, folded,
                   outside>>

\* end_workflow(): sets the flag and wakes a waiting loop.
EndWorkflow ==
    /\ should_end' = TRUE
    /\ action_received' = TRUE
    /\ UNCHANGED <<state, user_prompt, current_question, suggested_mcp_tools,
                   findings, final_report, error_message, pending_action,
                   execution_started, pc, conversation_history, iteration,
                   agent_response, result, delivered, folded,
                   outside>>

\* ------------------------------------------------------------ run coroutine

EndedBeforeExecution == [kind |-> "ended_before_execution", text |-> None]
EndedByUser == [kind |-> "ended_by_user", text |-> None]
LastReply(r) == [kind |-> "last_reply", text |-> r]
IncompleteAfterMax(r) == [kind |-> "max_iterations", text |-> r]

\* The places the coroutine waits for action_received.
AwaitPcs == {"await_marker", "await_other", "await_prose"}

\* _execute_with_human_loop returned r: run() records it and returns.
RunReturns(r) ==
    /\ state' = "completed"
    /\ final_report' = r
    /\ result' = r
    /\ pc' = "returned"
    /\ UNCHANGED error_message

\* Mutant of RunRaises: the except clause records the message and
\* re-raises without setting state.
RunRaisesKeepsState(msg) ==
    /\ UNCHANGED state
    /\ error_message' = msg
    /\ pc' = "raised"
    /\ UNCHANGED <<final_report, result>>

\* run()'s except clause: record the failure and re-raise.
RunRaises(msg) ==
    /\ state' = "failed"
    /\ error_message' = msg
    /\ pc' = "raised"
    /\ UNCHANGED <<final_report, result>>

\* The head of the for loop for turn number it (0-based), resp being the
\* value of agent_response: the loop ends after MaxIterations turns, else
\* checks should_end, else awaits Runner.run.
ForNext(it, resp) ==
    /\ iteration' = it
    /\ IF it >= MaxIterations
         THEN IF resp = Unbound
                THEN RunRaises(ErrUnbound)
                ELSE RunReturns(IncompleteAfterMax(resp))
         ELSE IF should_end
                THEN RunReturns(EndedByUser)
                ELSE /\ state' = "executing"
                     /\ pc' = "agent_call"
                     /\ UNCHANGED <<final_report, error_message, result>>

\* await workflow.wait_condition(lambda: self.execution_started), then the
\* should_end check that follows it.
WaitStart ==
    /\ pc = "wait_start"
    /\ execution_started
    /\ IF should_end
         THEN /\ state' = "completed"
              /\ result' = EndedBeforeExecution
              /\ pc' = "returned"
         ELSE /\ pc' = "discover"
              /\ UNCHANGED <<state, result>>
    /\ UNCHANGED <<user_prompt, current_question, suggested_mcp_tools, findings,
                   final_report, error_message, pending_action,
                   action_received, should_end, execution_started,
                   conversation_history, iteration, agent_response, delivered,
                   folded,
                   outside>>

\* The get_available_mcp_servers activity completes (or raises); on success
\* the coroutine enters executing, builds the initial prompt and starts the
\* loop.
Discover ==
    /\ pc = "discover"
    /\ \/ /\ RunRaises(ErrDiscovery)
          /\ UNCHANGED <<conversation_history, iteration>>
       \/ /\ conversation_history' = <<[tag |-> "Task", text |-> user_prompt]>>
          /\ ForNext(0, agent_response)
    /\ UNCHANGED <<user_prompt, current_question, suggested_mcp_tools, findings,
                   pending_action, action_received, should_end,
                   execution_started, agent_response, delivered, folded,
                   outside>>

\* Mutant of AwaitAction: the event is not cleared before the wait.
AwaitActionNoClear(at) ==
    /\ UNCHANGED action_received
    /\ pc' = at

\* self.action_received.clear(); await self.action_received.wait()
AwaitAction(at) ==
    /\ action_received' = FALSE
    /\ pc' = at

\* The synthetic message appended when Runner.run raises.
ErrorPrompt == [tag |-> "SYSTEM ERROR", text |-> "An MCP tool execution failed"]

\* Runner.run(agent, input=current_prompt) completes: it raises, or returns
\* a final_output that is parsed and published as the question.
AgentReturns ==
    /\ pc = "agent_call"
    /\ \/ /\ conversation_history' = Append(conversation_history, ErrorPrompt)
          /\ ForNext(iteration + 1, agent_response)
          /\ UNCHANGED <<agent_response, current_question, suggested_mcp_tools,
                         findings, action_received>>
       \/ \E r \in Replies :
            LET response_data == JsonLoads(r) IN
            /\ agent_response' = r
            /\ IF ~response_data.ok
                 THEN /\ conversation_history' =
                            Append(conversation_history, [tag |-> "AGENT", text |-> r])
                      /\ state' = "awaiting_input"
                      /\ current_question' = r
                      /\ suggested_mcp_tools' = <<>>
                      /\ AwaitAction("await_prose")
                      /\ UNCHANGED <<findings, iteration, final_report,
                                     error_message, result>>
                 ELSE IF ~response_data.dict
                 THEN /\ RunRaises(ErrNotDict)
                      /\ UNCHANGED <<conversation_history, current_question,
                                     suggested_mcp_tools, findings, iteration,
                                     action_received>>
                 ELSE IF response_data.type = "NEED_HUMAN_INPUT"
                 THEN /\ state' = "awaiting_input"
                      /\ current_question' = response_data.question
                      /\ suggested_mcp_tools' = response_data.suggested_tools
                      /\ findings' = response_data.findings_so_far
                      /\ AwaitAction("await_marker")
                      /\ UNCHANGED <<conversation_history, iteration,
                                     final_report, error_message, result>>
                 ELSE /\ conversation_history' =
                            Append(conversation_history, [tag |-> "AGENT", text |-> r])
                      /\ state' = "awaiting_input"
                      /\ current_question' = r
                      /\ suggested_mcp_tools' = <<>>
                      /\ AwaitAction("await_other")
                      /\ UNCHANGED <<findings, iteration, final_report,
                                     error_message, result>>
    /\ UNCHANGED <<user_prompt, pending_action, should_end, execution_started,
                   delivered, folded,
                   outside>>

\* The transcript entry for the operator's action in the NEED_HUMAN_INPUT
\* branch, tagged by action kind.
UserMessage(action) ==
    [tag |-> CASE action.action_type = "text" -> "User response"
               [] action.action_type = "tool_result" -> "User provided tool result"
               [] action.action_type = "approval" -> "User decision"
               [] OTHER -> "User input",
     text |-> action.content]

\* The loop resumed with should_end set: it returns without folding.
ResumeTerminated ==
    /\ RunReturns(IF pc = "await_marker" THEN EndedByUser
                                         ELSE LastReply(agent_response))
    /\ UNCHANGED <<conversation_history, iteration, current_question,
                   pending_action, folded>>

\* Mutant of ResumeFold: the action stays in pending_action after it was
\* folded.
ResumeFoldKeepsAction ==
    IF pending_action = NoAction
      THEN /\ RunRaises(ErrNoAction)
           /\ UNCHANGED <<conversation_history, iteration, current_question,
                          pending_action, folded>>
      ELSE /\ conversation_history' =
                 IF pc = "await_marker"
                   THEN conversation_history \o
                          <<[tag |-> "AGENT", text |-> agent_response],
                            UserMessage(pending_action)>>
                   ELSE Append(conversation_history,
                               [tag |-> "User", text |-> pending_action.content])
           /\ folded' = Append(folded, pending_action.delivery)
           /\ current_question' = None
           /\ UNCHANGED pending_action
           /\ ForNext(iteration + 1, agent_response)

\* The loop resumed without should_end: it reads pending_action, folds it
\* into the transcript, resets to executing and starts the next turn.
ResumeFold ==
    IF pending_action = NoAction
      THEN /\ RunRaises(ErrNoAction)
           /\ UNCHANGED <<conversation_history, iteration, current_question,
                          pending_action, folded>>
      ELSE /\ conversation_history' =
                 IF pc = "await_marker"
                   THEN conversation_history \o
                          <<[tag |-> "AGENT", text |-> agent_response],
                            UserMessage(pending_action)>>
                   ELSE Append(conversation_history,
                               [tag |-> "User", text |-> pending_action.content])
           /\ folded' = Append(folded, pending_action.delivery)
           /\ current_question' = None
           /\ pending_action' = NoAction
           /\ ForNext(iteration + 1, agent_response)

\* Mutant of Resume: a delivered action is folded before should_end is
\* looked at.
ResumeActionFirst ==
    /\ pc \in AwaitPcs
    /\ action_received
    /\ IF pending_action # NoAction THEN ResumeFold ELSE ResumeTerminated
    /\ UNCHANGED <<user_prompt, suggested_mcp_tools, findings, action_received,
                   should_end, execution_started, agent_response, delivered,
                   outside>>

\* await self.action_received.wait() returns.
Resume ==
    /\ pc \in AwaitPcs
    /\ action_received
    /\ IF should_end THEN ResumeTerminated ELSE ResumeFold
    /\ UNCHANGED <<user_prompt, suggested_mcp_tools, findings, action_received,
                   should_end, execution_started, agent_response, delivered,
                   outside>>

\* ------------------------------------------------------------ specification

Signal == StartExecution \/ ProvideAction \/ RedeliverAction \/ EndWorkflow

RunStep == WaitStart \/ Discover \/ AgentReturns \/ Resume

Next == Signal \/ RunStep

Spec == Init /\ [][Next]_vars

\* The instance with get_status queries interleaved at any point.
QueryNext == Next \/ GetStatus

QuerySpec == Init /\ [][QueryNext]_vars

\* The workflow host runs the coroutine whenever it can advance, and every
\* activity and agent call ends (each carries a timeout); nothing obliges
\* the operator to send a signal.
FairSpec == Spec /\ WF_vars(WaitStart) /\ WF_vars(Discover)
                 /\ WF_vars(AgentReturns) /\ WF_vars(Resume)

\* ------------------------------------------------------------------ claims

\* Deliveries of provide_action made while the instance was not awaiting
\* input.
EarlyDeliveries == {d \in 1..Len(delivered) : delivered[d].at # "awaiting_input"}

\* How many times delivery d was folded into the transcript.
TimesFolded(d) == Cardinality({i \in 1..Len(folded) : folded[i] = d})

\* Transcript entries that carry an operator action.
UserTags == {"User", "User response", "User provided tool result",
             "User decision", "User input"}

\* How many transcript entries carry the action content c.
TimesInTranscript(c) ==
    Cardinality({i \in 1..Len(conversation_history) :
                    /\ conversation_history[i].tag \in UserTags
                    /\ conversation_history[i].text = c})

\* C1: whatever start_execution deliveries arrive, the run loop leaves its
\* initial wait once (it does leave it after a delivery, and never comes
\* back to it), state goes from pending to executing only in the run loop's
\* own step after discovery and never returns to pending, and no step
\* restarts the conversation loop: the turn counter never decreases and the
\* transcript keeps its first entry and never shrinks.
C1_StartsExactlyOnce ==
    /\ [][/\ pc # "wait_start" => pc' # "wait_start"
          /\ state # "pending" => state' # "pending"
          /\ (state = "pending" /\ state' = "executing")
                => (pc = "discover" /\ pc' = "agent_call" /\ iteration' = 0)
          /\ (state # "pending" /\ state' = "executing")
                => (state = "executing" \/ pc \in AwaitPcs)
          /\ iteration' >= iteration
          /\ Len(conversation_history') >= Len(conversation_history)
          /\ conversation_history # <<>>
                => conversation_history'[1] = conversation_history[1]]_vars
    /\ (execution_started ~> pc # "wait_start")

\* C1 witness: a start_execution with another prompt arrived after the
\* transcript was built, and the loop went on with its second turn.
C1_Witness ==
    /\ state = "executing"
    /\ iteration >= 1
    /\ conversation_history[1].text # user_prompt

\* C2: a provide_action delivered while the instance is not awaiting input
\* never makes the run fail on a missing action, and is folded into the
\* transcript at most once.
C2_EarlyActionTolerated ==
    /\ error_message # ErrNoAction
    /\ \A d \in EarlyDeliveries : TimesFolded(d) <= 1

\* C2 witness: an action was delivered while pending or executing, and the
\* loop later suspended, resumed and folded a later delivery.
C2_Witness ==
    \E d \in EarlyDeliveries :
        /\ delivered[d].at \in {"pending", "executing"}
        /\ folded # <<>>
        /\ folded[Len(folded)] > d

\* C3: provide_action is idempotent under redelivery: an action delivered
\* twice appears in the transcript as often as an action delivered once, so
\* no action content is folded into the transcript more than once.
C3_DuplicateNotConsumed ==
    \A k \in 1..Len(OperatorActions) :
        TimesInTranscript(OperatorActions[k].content) <= 1

\* C4: once set, user_prompt never changes, and neither does the initial
\* transcript entry built from it.
C4_PromptSetOnce ==
    [][/\ user_prompt # None => user_prompt' = user_prompt
       /\ conversation_history # <<>>
             => conversation_history'[1] = conversation_history[1]]_vars

\* C5: end_workflow delivered while an agent call is in flight does not
\* preempt the call, and the instance then ends without any further signal
\* (completed; failed only if the run faults for another reason).
C5_EndDuringAgentCall ==
    (pc = "agent_call" /\ should_end) ~> (state \in {"completed", "failed"})

\* C6: end_workflow delivered while the instance is pending makes the run
\* loop leave its initial wait and reach completed, unless a
\* start_execution arrives.
C6_EndWhilePending ==
    (state = "pending" /\ pc = "wait_start" /\ should_end /\ ~execution_started)
        ~> (state = "completed" \/ execution_started)

\* C7: when termination has been requested and the loop is suspended in
\* awaiting_input, the loop's next step ends the instance in completed with
\* the transcript untouched, even if a provide_action was delivered too; and
\* once the loop has been woken it does take that step.
C7_EndWhileAwaiting ==
    /\ [][(pc \in AwaitPcs /\ should_end /\ pc' # pc)
            => /\ state' = "completed"
               /\ conversation_history' = conversation_history
               /\ folded' = folded]_vars
    /\ ((pc \in AwaitPcs /\ should_end /\ action_received) ~> state = "completed")

\* C7 witness: the instance completed from a suspension while holding an
\* action that was delivered during that suspension and was not folded.
C7_Witness ==
    /\ state = "completed"
    /\ final_report.kind = "last_reply"
    /\ pending_action # NoAction
    /\ delivered[pending_action.delivery].at = "awaiting_input"
    /\ TimesFolded(pending_action.delivery) = 0

\* The edges of the lifecycle.
Edges ==
    {<<"pending", "executing">>, <<"executing", "awaiting_input">>,
     <<"awaiting_input", "executing">>}
    \cup ({"pending", "executing", "awaiting_input"} \X {"completed", "failed"})

\* C8: every change of state follows an edge of the lifecycle, and once
\* state is completed or failed no step changes what get_status returns.
C8_LifecycleEdges ==
    [][/\ state' # state => <<state, state'>> \in Edges
       /\ state \in {"completed", "failed"} => get_status' = get_status]_vars

\* C8 witness: a signal was handled after the instance had ended: a
\* provide_action was delivered in a terminal state.
C8_Witness ==
    /\ state \in {"completed", "failed"}
    /\ \E d \in 1..Len(delivered) : delivered[d].at \in {"completed", "failed"}

\* C9: final_report is non-null exactly when state is completed.
C9_ReportIffCompleted ==
    (final_report # NoReport) <=> (state = "completed")

\* C10: while state is executing, current_question is null and
\* suggested_mcp_tools and findings are empty.
C10_TransientsCleared ==
    state = "executing"
        => /\ current_question = None
           /\ suggested_mcp_tools = <<>>
           /\ findings = <<>>

\* The question a reply is published as: the marker's question, or the
\* whole reply.
PublishedQuestion(r) ==
    IF JsonLoads(r).ok /\ JsonLoads(r).dict /\ JsonLoads(r).type = "NEED_HUMAN_INPUT"
      THEN JsonLoads(r).question
      ELSE r

\* A step in which an agent invocation failed: the synthetic error message
\* is appended to the transcript.
AgentCallFailed ==
    /\ pc = "agent_call"
    /\ conversation_history' = Append(conversation_history, ErrorPrompt)

\* A step in which an agent invocation returned a reply.
AgentCallReplied ==
    /\ pc = "agent_call"
    /\ pc' # "agent_call"
    /\ ~AgentCallFailed

\* C11: whatever reply a successful agent invocation returns (the marker,
\* another JSON value, prose), the instance goes to awaiting_input with
\* current_question set to the marker's question or to the whole reply, and
\* does not fail.
C11_EveryReplyIsAQuestion ==
    [][AgentCallReplied
         => /\ state' = "awaiting_input"
            /\ current_question' = PublishedQuestion(agent_response')]_vars

\* C12: a failed agent invocation appends exactly one synthetic error
\* message and consumes one turn; the instance then goes on executing with
\* the next agent call, or the loop exits and the instance completes; it
\* enters neither awaiting_input nor failed.
C12_AgentFailureIsConversational ==
    [][AgentCallFailed
         => /\ iteration' = iteration + 1
            /\ Len(conversation_history') = Len(conversation_history) + 1
            /\ state' \notin {"awaiting_input", "failed"}
            /\ \/ state' = "executing" /\ pc' = "agent_call"
               \/ state' = "completed" /\ pc' = "returned"]_vars

\* C13: when the loop has used its whole turn budget, the instance is
\* completed and final_report is the max-iterations result.
C13_BudgetExhaustedCompletes ==
    iteration >= MaxIterations
        => /\ state = "completed"
           /\ final_report.kind = "max_iterations"

\* C14: when the run raises, state is failed, error_message is set and no
\* result is returned; error_message is set in no state other than failed,
\* and failed is entered only by the run raising.
C14_FailureRecorded ==
    /\ pc = "raised" => /\ state = "failed"
                        /\ error_message # None
                        /\ result = NoReport
    /\ error_message # None => state = "failed"
    /\ state = "failed" => pc = "raised"

\* C14 witness: the conversation loop raised after tool-provider discovery
\* had succeeded.
C14_Witness ==
    /\ pc = "raised"
    /\ conversation_history # <<>>
    /\ error_message = ErrNotDict

\* No signal has been delivered to the instance.
NoSignalReceived ==
    /\ ~execution_started
    /\ ~should_end
    /\ ~action_received
    /\ delivered = <<>>
    /\ user_prompt = None

\* C15: on an instance that has received no signal, get_status returns
\* state pending, null current_question, final_report and error_message,
\* and empty suggested tools and findings.
C15_InitialStatus ==
    NoSignalReceived
        => get_status = [state |-> "pending",
                         current_question |-> None,
                         suggested_mcp_tools |-> <<>>,
                         findings |-> <<>>,
                         final_report |-> NoReport,
                         error_message |-> None]

\* C15 witness: the instance as constructed, its run loop at the initial
\* wait.
C15_Witness ==
    /\ NoSignalReceived
    /\ pc = "wait_start"

\* C16: get_status is a pure read: a step that answers a query, in any
\* state and at any point between signals and loop steps, leaves every field
\* of the instance and the position of its run loop unchanged, so a suspended
\* loop stays suspended.
C16_QueryIsPure ==
    [][queried' # queried => UNCHANGED instance]_vars

\* C16 witness: a query has been answered and the loop is suspended in
\* awaiting_input with no wake-up pending.
C16_Witness ==
    /\ queried
    /\ state = "awaiting_input"
    /\ pc \in AwaitPcs
    /\ ~action_received

\* ================================================================== client
\* The interactive session of ein-agent-cli
\* (orchestrators/human_in_the_loop.py) driving workflows on the workflow
\* host.  The orchestrator is one coroutine: a step runs from one await (a
\* prompt, an RPC, a sleep) to the next.  The host holds one run per
\* workflow id; a run is seen at quiescence, as a query sees it: a signal
\* and the part of the run coroutine it wakes are one step.

\* ------------------------------------------------------------------ bounds

\* config.max_iterations, the poll budget of one _interactive_workflow_loop
\* (default 50, models.py:449).
MaxPolls == 2

\* Workflows one session creates.
MaxWorkflows == 2

\* Turn budget of a run the session drives: max_iterations = 50
\* (human_in_loop.py:244), small in the model.
MaxTurns == 1

\* Contexts one session holds.
MaxContexts == 2

\* ------------------------------------------------------------------ values

\* Ids trigger_human_in_loop_workflow generates from the clock
\* (human-in-loop-<timestamp>), one per creation.
GeneratedIds == <<"wf1", "wf2", "wf3", "wf4">>

\* --workflow-id given on the command line.
CustomId == "custom"

WorkflowIds == {CustomId} \cup {GeneratedIds[i] : i \in 1..MaxWorkflows}

\* generate_context_id(): one id per context created.
ContextIds == <<"c1", "c2", "c3">>

\* Fingerprints of the alerts the session can hold.
Fingerprints == {"f1"}

\* Where the orchestrator's process has ended.
Exits == {"exit_operator", "exit_error", "exit_failed", "exit_no_workflow"}

\* The prompts at which the operator types.
PromptPcs == {"initial_prompt", "awaiting_prompt", "completed_prompt"}

\* Messages printed with console.print_error / print_warning.
MsgNotCompletedRca == "warning: Enrichment RCA can only be started for completed RCA workflows."
MsgCompactMissing == "error: Compact RCA not found in context. Run /compact-rca first."
MsgCompactNotCompleted == "error: Compact RCA is not yet completed."
MsgAlertNotFound == "error: Alert not found"
MsgNoCompletedRca == "error: No completed RCA workflows found in context."
MsgWorkflowFailed == "error: Workflow Failed"
MsgRpcError == "error: RPC failed"
MsgAttributeError == "error: 'UserAction' object has no attribute 'should_switch'"
MsgUnknownCommand == "error: Unknown command"

\* final_report strings of a run.
ReportEndedByUser == "Workflow ended by user request"
ReportMaxIterations == "Task incomplete after max iterations"

\* LocalContext(): no alerts, no workflow records.  compact_rca is a set
\* holding the record when there is one.
EmptyLocalContext ==
    [items |-> {}, rca_workflows |-> {}, enrichment_rca_workflows |-> {},
     compact_rca |-> {}]

\* A workflow id the host has no run for.
NoRun ==
    [state |-> "absent", started |-> FALSE, should_end |-> FALSE, turn |-> 0,
     current_question |-> None, findings |-> <<>>, final_report |-> None,
     error_message |-> None]

\* The run start_workflow creates: HumanInLoopWorkflow.__init__.
PendingRun == [NoRun EXCEPT !.state = "pending"]

\* final_output strings the agent runner returns to a run the session
\* drives: the NEED_HUMAN_INPUT marker, or JSON that is not an object.
SessionReplies == {"need_input", "json_value"}

\* ------------------------------------------------------------------ host

\* run() returns r.
HostReturns(r, report) ==
    [r EXCEPT !.state = "completed", !.final_report = report]

\* run() raises.
HostRaises(r, msg) ==
    [r EXCEPT !.state = "failed", !.error_message = msg]

\* The head of the for loop with r.turn turns consumed; the run stays in
\* executing while Runner.run is awaited.
HostTurn(r) ==
    IF r.turn >= MaxTurns THEN HostReturns(r, ReportMaxIterations)
    ELSE IF r.should_end THEN HostReturns(r, ReportEndedByUser)
    ELSE [r EXCEPT !.state = "executing"]

\* The reply the run suspended on carried the NEED_HUMAN_INPUT marker.
SuspendedOnMarker(r) == r.current_question = JsonLoads("need_input").question

\* action_received.wait() returns in a run suspended in awaiting_input.
HostResume(r) ==
    IF r.should_end
    THEN HostReturns(r, IF SuspendedOnMarker(r) THEN ReportEndedByUser
                        ELSE r.current_question)
    ELSE HostTurn([r EXCEPT !.turn = @ + 1, !.current_question = None])

\* The start_execution signal.
HostStartExecution(r) ==
    IF r.state = "pending" /\ ~r.started
    THEN IF r.should_end THEN [r EXCEPT !.started = TRUE, !.state = "completed"]
         ELSE [r EXCEPT !.started = TRUE]
    ELSE r

\* The provide_action signal.
HostProvideAction(r) ==
    IF r.state = "awaiting_input" THEN HostResume(r) ELSE r

\* The end_workflow signal.
HostEndWorkflow(r) ==
    IF r.state = "awaiting_input" THEN HostResume([r EXCEPT !.should_end = TRUE])
    ELSE IF r.state \in {"pending", "executing"} THEN [r EXCEPT !.should_end = TRUE]
    ELSE r

\* The get_status query on a run: WorkflowStatus.
HostStatus(r) ==
    [state |-> r.state, current_question |-> r.current_question,
     findings |-> r.findings, final_report |-> r.final_report,
     error_message |-> r.error_message]

\* A step of the host leaves the session alone and issues no RPC.
HostFrame ==
    /\ rpcs' = <<>>
    /\ console' = None
    /\ UNCHANGED <<cli, session, saved, config, instance, queried, library>>

\* The discovery activity of run w ends: the run enters the conversation
\* loop, or the activity's error fails it.
HostDiscover(w) ==
    /\ remote[w].state = "pending"
    /\ remote[w].started
    /\ \E ok \in BOOLEAN :
         remote' = [remote EXCEPT ![w] = IF ok THEN HostTurn(@)
                                         ELSE HostRaises(@, ErrDiscovery)]
    /\ HostFrame

\* Runner.run of run w returns reply.
HostAgentReturns(w, reply) ==
    /\ remote[w].state = "executing"
    /\ LET data == JsonLoads(reply)
           r == remote[w]
       IN remote' = [remote EXCEPT ![w] =
              IF data.ok /\ ~data.dict THEN HostRaises(r, ErrNotDict)
              ELSE IF data.ok /\ data.type = "NEED_HUMAN_INPUT"
              THEN [r EXCEPT !.state = "awaiting_input",
                             !.current_question = data.question,
                             !.findings = data.findings_so_far]
              ELSE [r EXCEPT !.state = "awaiting_input",
                             !.current_question = reply]]
    /\ HostFrame

\* ------------------------------------------------------------------ session

\* session.get_current_context().local_context
CurrentLocal(s) == s.contexts[s.current_context_id]

\* The session with its current context's LocalContext replaced.
WithLocal(s, lc) ==
    [s EXCEPT !.contexts = [@ EXCEPT ![s.current_context_id] = lc]]

\* A dict keyed by workflow_id, as a set of records: d[rec.workflow_id] = rec.
Put(d, rec) == {x \in d : x.workflow_id # rec.workflow_id} \cup {rec}

\* SessionState.add_workflow: the id becomes the current workflow.
add_workflow(s, id) == [s EXCEPT !.current_workflow_id = id]

\* SessionState.switch_to
switch_to(s, id) == [s EXCEPT !.current_workflow_id = id]

\* SessionState.add_context: the new context is added and becomes current.
add_context(s, c) ==
    [s EXCEPT !.contexts = [x \in DOMAIN s.contexts \cup {c} |->
                               IF x = c THEN EmptyLocalContext
                               ELSE s.contexts[x]],
              !.current_context_id = c]

\* SessionState.switch_context
switch_context(s, c) == [s EXCEPT !.current_context_id = c]

\* Mutant of remove_item: the records that reference the alert go with it.
RemoveItemCascades(lc, id) ==
    [lc EXCEPT !.items = @ \ {id},
               !.rca_workflows = {m \in @ : m.alert_fingerprint # id},
               !.enrichment_rca_workflows = {m \in @ : m.alert_fingerprint # id}]

\* LocalContext.remove_item: the Context Item with that id is dropped.
remove_item(lc, id) == [lc EXCEPT !.items = @ \ {id}]

\* LocalContext.get_all_workflows: the flattened view of the records.
get_all_workflows(lc) ==
    {[workflow_id |-> m.workflow_id, type |-> "RCA", status |-> m.status,
      alert_fingerprint |-> m.alert_fingerprint] : m \in lc.rca_workflows}
    \cup
    {[workflow_id |-> m.workflow_id, type |-> "EnrichmentRCA",
      status |-> m.status, alert_fingerprint |-> m.alert_fingerprint]
        : m \in lc.enrichment_rca_workflows}
    \cup
    {[workflow_id |-> m.workflow_id, type |-> "CompactRCA",
      status |-> m.status, alert_fingerprint |-> None] : m \in lc.compact_rca}

\* LocalContext.get_completed_rca_workflows
get_completed_rca_workflows(lc) ==
    {m \in lc.rca_workflows : m.status = "completed"}

\* _update_workflow_result's workflow_result.
WorkflowResult(final) ==
    IF final # None /\ final # "" THEN [final_report |-> final]
    ELSE [final_report |-> None]

\* The record m marked completed with the result.
Completed(m, final) ==
    [m EXCEPT !.status = "completed", !.result = WorkflowResult(final)]

\* Mutant of _update_workflow_result: the record keeps status running.
UpdateWorkflowResultKeepsStatus(s, w, status) ==
    LET lc == CurrentLocal(s)
    IN WithLocal(s, [lc EXCEPT !.rca_workflows =
           {IF m.workflow_id = w
            THEN [m EXCEPT !.result = WorkflowResult(status.final_report)]
            ELSE m : m \in @}])

\* _update_workflow_result: the first kind of record of the current
\* context that holds workflow w is marked completed.
_update_workflow_result(s, w, status) ==
    LET lc == CurrentLocal(s)
        final == status.final_report
        Mark(d) == {IF m.workflow_id = w THEN Completed(m, final) ELSE m : m \in d}
        Holds(d) == \E m \in d : m.workflow_id = w
    IN IF Holds(lc.rca_workflows)
       THEN WithLocal(s, [lc EXCEPT !.rca_workflows = Mark(@)])
       ELSE IF Holds(lc.enrichment_rca_workflows)
       THEN WithLocal(s, [lc EXCEPT !.enrichment_rca_workflows = Mark(@)])
       ELSE IF Holds(lc.compact_rca)
       THEN WithLocal(s, [lc EXCEPT !.compact_rca = Mark(@)])
       ELSE s

\* save_session_state: the session file is overwritten with the whole
\* Session State s.
save_session_state(s) == s

\* Workflow w has a record in LocalContext lc.
Tracks(lc, w) ==
    \E m \in lc.rca_workflows \cup lc.enrichment_rca_workflows \cup lc.compact_rca :
        m.workflow_id = w

\* CommandResult(): continue in place.
NoRequest ==
    [should_create_new |-> FALSE, workflow_type |-> None,
     alert_fingerprint |-> None, source_workflow_ids |-> {},
     message |-> None]

\* CommandResult(should_create_new=True, ...)
CreateRequest(type, fingerprint, sources) ==
    [should_create_new |-> TRUE, workflow_type |-> type,
     alert_fingerprint |-> fingerprint, source_workflow_ids |-> sources,
     message |-> None]

\* A handler that prints msg and returns None.
Rejected(msg) == [NoRequest EXCEPT !.message = msg]

\* Mutant of _start_enrichment_rca: the compact-RCA guard is missing.
StartEnrichmentUnguarded(wf, lc) ==
    IF ~(wf.type = "RCA" /\ wf.status = "completed")
    THEN Rejected(MsgNotCompletedRca)
    ELSE IF wf.alert_fingerprint \notin lc.items
    THEN Rejected(MsgAlertNotFound)
    ELSE CreateRequest("EnrichmentRCA", wf.alert_fingerprint, {})

\* WorkflowsCommand._start_enrichment_rca on the selected workflow wf.
_start_enrichment_rca(wf, lc) ==
    IF ~(wf.type = "RCA" /\ wf.status = "completed")
    THEN Rejected(MsgNotCompletedRca)
    ELSE IF lc.compact_rca = {}
    THEN Rejected(MsgCompactMissing)
    ELSE IF \E m \in lc.compact_rca : m.status # "completed"
    THEN Rejected(MsgCompactNotCompleted)
    ELSE IF wf.alert_fingerprint \notin lc.items
    THEN Rejected(MsgAlertNotFound)
    ELSE CreateRequest("EnrichmentRCA", wf.alert_fingerprint, {})

\* Mutant of _compact_rca: every RCA record counts, completed or not.
CompactRcaOfAllRecords(lc, confirm) ==
    IF lc.rca_workflows = {}
    THEN Rejected(MsgNoCompletedRca)
    ELSE IF ~confirm
    THEN NoRequest
    ELSE CreateRequest("CompactRCA", None,
             {m.workflow_id : m \in lc.rca_workflows})

\* CompactRCACommand.execute; confirm is the operator's answer to "Create
\* compact RCA from n workflows?".
_compact_rca(lc, confirm) ==
    IF get_completed_rca_workflows(lc) = {}
    THEN Rejected(MsgNoCompletedRca)
    ELSE IF ~confirm
    THEN NoRequest
    ELSE CreateRequest("CompactRCA", None,
             {m.workflow_id : m \in get_completed_rca_workflows(lc)})

\* ------------------------------------------------------------------ orchestrator

\* One RPC of the latest step.
Rpc(name, w, ok) == [name |-> name, workflow_id |-> w, ok |-> ok]

\* The head of _interactive_workflow_loop's while for workflow w after
\* polls polls: another poll, or the poll budget is spent and end_workflow
\* is awaited.
InteractiveWorkflowLoop(c, w, polls) ==
    IF polls < MaxPolls
    THEN [c EXCEPT !.pc = "poll", !.workflow_id = w, !.iteration = polls + 1]
    ELSE [c EXCEPT !.pc = "force_end", !.workflow_id = w, !.iteration = polls]

\* Mutant of MainSessionLoop: the loop keeps driving the workflow it drove
\* before.
MainSessionLoopKeepsWorkflow(c, s) ==
    IF s.current_workflow_id = None
    THEN [c EXCEPT !.pc = "exit_no_workflow"]
    ELSE InteractiveWorkflowLoop(c, IF c.workflow_id # None THEN c.workflow_id
                                    ELSE s.current_workflow_id, 0)

\* The head of _main_session_loop's while: a new
\* _interactive_workflow_loop for the session's current workflow.
MainSessionLoop(c, s) ==
    IF s.current_workflow_id = None
    THEN [c EXCEPT !.pc = "exit_no_workflow"]
    ELSE InteractiveWorkflowLoop(c, s.current_workflow_id, 0)

\* run_human_in_loop's except Exception: the error is printed and the
\* process exits with status 1.
Abort(msg) ==
    /\ cli' = [cli EXCEPT !.pc = "exit_error"]
    /\ console' = msg

\* A step of the orchestrator leaves the modelled instance alone.
CliFrame == UNCHANGED <<config, instance, queried, library>>

\* The workflow id the next creation uses (temporal.py:97-99).
NewWorkflowId ==
    IF config.workflow_id # None THEN config.workflow_id
    ELSE GeneratedIds[cli.created + 1]

\* Mutant of InsertMetadata: a CompactRCA record is made with status
\* completed.
InsertMetadataCompactCompleted(s, id, req) ==
    LET lc == CurrentLocal(s)
        rca == [workflow_id |-> id, alert_fingerprint |-> req.alert_fingerprint,
                status |-> "running", result |-> WorkflowResult(None)]
        compact == [workflow_id |-> id,
                    source_workflow_ids |-> req.source_workflow_ids,
                    status |-> "completed", result |-> WorkflowResult(None)]
    IN CASE req.workflow_type = "RCA" ->
              WithLocal(s, [lc EXCEPT !.rca_workflows = Put(@, rca)])
         [] req.workflow_type = "EnrichmentRCA" ->
              WithLocal(s, [lc EXCEPT !.enrichment_rca_workflows = Put(@, rca)])
         [] req.workflow_type = "CompactRCA" ->
              WithLocal(s, [lc EXCEPT !.compact_rca = {compact}])
         [] OTHER -> s

\* _create_new_workflow's insertion of the Workflow Metadata, by type.
InsertMetadata(s, id, req) ==
    LET lc == CurrentLocal(s)
        rca == [workflow_id |-> id, alert_fingerprint |-> req.alert_fingerprint,
                status |-> "running", result |-> WorkflowResult(None)]
        compact == [workflow_id |-> id,
                    source_workflow_ids |-> req.source_workflow_ids,
                    status |-> "running", result |-> WorkflowResult(None)]
    IN CASE req.workflow_type = "RCA" ->
              WithLocal(s, [lc EXCEPT !.rca_workflows = Put(@, rca)])
         [] req.workflow_type = "EnrichmentRCA" ->
              WithLocal(s, [lc EXCEPT !.enrichment_rca_workflows = Put(@, rca)])
         [] req.workflow_type = "CompactRCA" ->
              WithLocal(s, [lc EXCEPT !.compact_rca = {compact}])
         [] OTHER -> s

\* Mutant of CreateNewWorkflow: the Workflow Metadata is inserted and the
\* workflow made current before the RPCs are issued.
CreateNewWorkflowTracksFirst(req) ==
    LET id == NewWorkflowId
        open == remote[id].state \in {"pending", "executing", "awaiting_input"}
        made == [cli EXCEPT !.created = @ + 1]
        tracked == InsertMetadata(session, id, req)
        disk == IF req.workflow_type # None THEN save_session_state(tracked)
                ELSE IF req.should_create_new THEN save_session_state(session)
                ELSE saved
    IN /\ cli.created < MaxWorkflows
       /\ session' = add_workflow(tracked, id)
       /\ saved' = disk
       /\ \E ok_start, ok_signal \in BOOLEAN :
            IF ~ok_start \/ open
            THEN /\ rpcs' = <<Rpc("start_workflow", id, FALSE)>>
                 /\ Abort(MsgRpcError)
                 /\ UNCHANGED remote
            ELSE IF ~ok_signal
            THEN /\ rpcs' = <<Rpc("start_workflow", id, TRUE),
                              Rpc("start_execution", id, FALSE)>>
                 /\ remote' = [remote EXCEPT ![id] = PendingRun]
                 /\ cli' = [made EXCEPT !.pc = "exit_error"]
                 /\ console' = MsgRpcError
            ELSE /\ rpcs' = <<Rpc("start_workflow", id, TRUE),
                              Rpc("start_execution", id, TRUE)>>
                 /\ remote' = [remote EXCEPT ![id] = HostStartExecution(PendingRun)]
                 /\ cli' = MainSessionLoop(made, session')
                 /\ console' = None

\* Mutant of CreateNewWorkflow: the workflow is started and driven without
\* the start_execution signal.
CreateNewWorkflowUnsignalled(req) ==
    LET id == NewWorkflowId
        open == remote[id].state \in {"pending", "executing", "awaiting_input"}
        made == [cli EXCEPT !.created = @ + 1]
        disk == IF req.should_create_new THEN save_session_state(session)
                ELSE saved
        tracked == InsertMetadata(session, id, req)
    IN /\ cli.created < MaxWorkflows
       /\ \E ok_start \in BOOLEAN :
            IF ~ok_start \/ open
            THEN /\ rpcs' = <<Rpc("start_workflow", id, FALSE)>>
                 /\ Abort(MsgRpcError)
                 /\ saved' = disk
                 /\ UNCHANGED <<remote, session>>
            ELSE /\ rpcs' = <<Rpc("start_workflow", id, TRUE)>>
                 /\ remote' = [remote EXCEPT ![id] = PendingRun]
                 /\ saved' = IF req.workflow_type # None
                             THEN save_session_state(tracked) ELSE disk
                 /\ session' = add_workflow(tracked, id)
                 /\ cli' = MainSessionLoop(made, session')
                 /\ console' = None

\* _create_new_workflow for the request req, then session.add_workflow and
\* the main loop: the start-workflow RPC (refused by the host while a run
\* with that id is open), the start_execution signal, the metadata.
CreateNewWorkflow(req) ==
    LET id == NewWorkflowId
        open == remote[id].state \in {"pending", "executing", "awaiting_input"}
        made == [cli EXCEPT !.created = @ + 1]
        \* a command's result was saved by the prompt loop; a typed task
        \* is not a command
        disk == IF req.should_create_new THEN save_session_state(session)
                ELSE saved
        tracked == InsertMetadata(session, id, req)
    IN /\ cli.created < MaxWorkflows
       /\ \E ok_start, ok_signal \in BOOLEAN :
            IF ~ok_start \/ open
            THEN /\ rpcs' = <<Rpc("start_workflow", id, FALSE)>>
                 /\ Abort(MsgRpcError)
                 /\ saved' = disk
                 /\ UNCHANGED <<remote, session>>
            ELSE IF ~ok_signal
            THEN /\ rpcs' = <<Rpc("start_workflow", id, TRUE),
                              Rpc("start_execution", id, FALSE)>>
                 /\ remote' = [remote EXCEPT ![id] = PendingRun]
                 /\ cli' = [made EXCEPT !.pc = "exit_error"]
                 /\ console' = MsgRpcError
                 /\ saved' = disk
                 /\ UNCHANGED session
            ELSE /\ rpcs' = <<Rpc("start_workflow", id, TRUE),
                              Rpc("start_execution", id, TRUE)>>
                 /\ remote' = [remote EXCEPT ![id] = HostStartExecution(PendingRun)]
                 /\ saved' = IF req.workflow_type # None
                             THEN save_session_state(tracked) ELSE disk
                 /\ session' = add_workflow(tracked, id)
                 /\ cli' = MainSessionLoop(made, session')
                 /\ console' = None

\* What the orchestrator does with the CommandResult req a command
\* returned at a prompt: create the workflow, or print and prompt again.
Dispatch(req) ==
    IF req.should_create_new
    THEN CreateNewWorkflow(req)
    ELSE /\ console' = req.message
         /\ rpcs' = <<>>
         /\ saved' = save_session_state(session)
         /\ UNCHANGED <<cli, session, remote>>

\* _initial_user_prompt_loop: the operator types the task as plain text.
InitialUserPrompt ==
    /\ cli.pc = "initial_prompt"
    /\ CreateNewWorkflow(NoRequest)
    /\ CliFrame

\* get_workflow_status in _interactive_workflow_loop, and the branch on
\* the state it returns.
Poll ==
    /\ cli.pc = "poll"
    /\ LET w == cli.workflow_id
           status == HostStatus(remote[w])
       IN \E ok \in BOOLEAN :
            /\ rpcs' = <<Rpc("get_status", w, ok)>>
            /\ UNCHANGED remote
            /\ IF ~ok THEN Abort(MsgRpcError) /\ UNCHANGED <<session, saved>>
               ELSE CASE status.state = "executing" ->
                           /\ cli' = [cli EXCEPT !.pc = "sleep"]
                           /\ console' = None
                           /\ UNCHANGED <<session, saved>>
                      [] status.state = "awaiting_input" ->
                           /\ cli' = [cli EXCEPT !.pc = "awaiting_prompt"]
                           /\ console' = None
                           /\ UNCHANGED <<session, saved>>
                      [] status.state = "completed" ->
                           /\ session' = _update_workflow_result(session, w, status)
                           /\ saved' = IF Tracks(CurrentLocal(session), w)
                                       THEN save_session_state(session')
                                       ELSE saved
                           /\ cli' = [cli EXCEPT !.pc = "completed_prompt"]
                           /\ console' = None
                      [] status.state = "failed" ->
                           /\ cli' = [cli EXCEPT !.pc = "exit_failed"]
                           /\ console' = MsgWorkflowFailed
                           /\ UNCHANGED <<session, saved>>
                      [] OTHER ->
                           /\ cli' = InteractiveWorkflowLoop(cli, w, cli.iteration)
                           /\ console' = None
                           /\ UNCHANGED <<session, saved>>
    /\ CliFrame

\* Mutant of Sleep: after the sleep the operator is prompted without a new
\* poll.
SleepThenPrompts ==
    /\ cli.pc = "sleep"
    /\ cli' = [cli EXCEPT !.pc = "awaiting_prompt"]
    /\ rpcs' = <<>>
    /\ console' = None
    /\ UNCHANGED <<session, saved, remote>>
    /\ CliFrame

\* asyncio.sleep(config.poll_interval) returns.
Sleep ==
    /\ cli.pc = "sleep"
    /\ cli' = InteractiveWorkflowLoop(cli, cli.workflow_id, cli.iteration)
    /\ rpcs' = <<>>
    /\ console' = None
    /\ UNCHANGED <<session, saved, remote>>
    /\ CliFrame

\* The poll budget is spent: end_workflow, the loop returns "completed",
\* which _main_session_loop has no branch for, and the main loop goes round.
ForceEnd ==
    /\ cli.pc = "force_end"
    /\ \E ok \in BOOLEAN :
         /\ rpcs' = <<Rpc("end_workflow", cli.workflow_id, ok)>>
         /\ IF ok
            THEN /\ remote' = [remote EXCEPT ![cli.workflow_id] = HostEndWorkflow(@)]
                 /\ cli' = MainSessionLoop(cli, session)
                 /\ console' = None
            ELSE Abort(MsgRpcError) /\ UNCHANGED remote
    /\ UNCHANGED <<session, saved>>
    /\ CliFrame

\* _get_user_action returns a UserAction for plain input at the
\* awaiting_input prompt: provide_user_action, then the loop goes round.
SendUserAction ==
    /\ cli.pc = "awaiting_prompt"
    /\ \E ok \in BOOLEAN :
         /\ rpcs' = <<[name |-> "provide_action", workflow_id |-> cli.workflow_id,
                       ok |-> ok, action_type |-> "text"]>>
         /\ IF ok
            THEN /\ remote' = [remote EXCEPT ![cli.workflow_id] = HostProvideAction(@)]
                 /\ cli' = InteractiveWorkflowLoop(cli, cli.workflow_id, cli.iteration)
                 /\ console' = None
            ELSE Abort(MsgRpcError) /\ UNCHANGED remote
    /\ UNCHANGED <<session, saved>>
    /\ CliFrame

\* Plain input at the prompt of _completed_workflow_loop: _get_user_action
\* returns a UserAction and the loop reads result.should_switch on it.
CompletedPlainInput ==
    /\ cli.pc = "completed_prompt"
    /\ Abort(MsgAttributeError)
    /\ rpcs' = <<>>
    /\ UNCHANGED <<session, saved, remote>>
    /\ CliFrame

\* /end: at the first prompt typer.Exit(0); at the awaiting_input prompt
\* end_workflow and "exit"; at the completed prompt "exit".
EndCommand ==
    /\ cli.pc \in PromptPcs
    /\ IF cli.pc = "awaiting_prompt"
       THEN \E ok \in BOOLEAN :
              /\ rpcs' = <<Rpc("end_workflow", cli.workflow_id, ok)>>
              /\ IF ok
                 THEN /\ remote' = [remote EXCEPT ![cli.workflow_id] = HostEndWorkflow(@)]
                      /\ cli' = [cli EXCEPT !.pc = "exit_operator"]
                      /\ console' = None
                 ELSE Abort(MsgRpcError) /\ UNCHANGED remote
       ELSE /\ rpcs' = <<>>
            /\ cli' = [cli EXCEPT !.pc = "exit_operator"]
            /\ console' = None
            /\ UNCHANGED remote
    /\ saved' = save_session_state(session)
    /\ UNCHANGED session
    /\ CliFrame

\* /complete at the awaiting_input prompt: end_workflow, and the loop goes
\* round without sleeping.  (At the other prompts the result is ignored.)
CompleteCommand ==
    /\ cli.pc = "awaiting_prompt"
    /\ session.current_workflow_id # None
    /\ \E ok \in BOOLEAN :
         /\ rpcs' = <<Rpc("end_workflow", cli.workflow_id, ok)>>
         /\ IF ok
            THEN /\ remote' = [remote EXCEPT ![cli.workflow_id] = HostEndWorkflow(@)]
                 /\ cli' = InteractiveWorkflowLoop(cli, cli.workflow_id, cli.iteration)
                 /\ console' = None
            ELSE Abort(MsgRpcError) /\ UNCHANGED remote
    /\ saved' = save_session_state(session)
    /\ UNCHANGED session
    /\ CliFrame

\* /alerts, select alert f, "Start RCA workflow".
AlertsStartRCA(f) ==
    /\ cli.pc \in PromptPcs
    /\ f \in CurrentLocal(session).items
    /\ Dispatch(CreateRequest("RCA", f, {}))
    /\ CliFrame

\* /alerts, select alert f, "Remove from context", confirmed.
AlertsRemove(f) ==
    /\ cli.pc \in PromptPcs
    /\ f \in CurrentLocal(session).items
    /\ session' = WithLocal(session, remove_item(CurrentLocal(session), f))
    /\ saved' = save_session_state(session')
    /\ rpcs' = <<>>
    /\ console' = None
    /\ UNCHANGED <<cli, remote>>
    /\ CliFrame

\* /workflows, select workflow wf, "Start enrichment RCA".
WorkflowsStartEnrichment(wf) ==
    /\ cli.pc \in PromptPcs
    /\ wf \in get_all_workflows(CurrentLocal(session))
    /\ Dispatch(_start_enrichment_rca(wf, CurrentLocal(session)))
    /\ CliFrame

\* /workflows, select workflow wf, "Switch to this workflow": should_switch
\* unless wf is current; the loop switches and returns to the main loop.
WorkflowsSwitch(wf) ==
    /\ cli.pc \in PromptPcs
    /\ wf \in get_all_workflows(CurrentLocal(session))
    /\ wf.workflow_id # session.current_workflow_id
    /\ saved' = save_session_state(session)
    /\ session' = IF cli.pc = "initial_prompt"
                  THEN add_workflow(session, wf.workflow_id)
                  ELSE switch_to(session, wf.workflow_id)
    /\ cli' = MainSessionLoop(cli, session')
    /\ rpcs' = <<>>
    /\ console' = None
    /\ UNCHANGED remote
    /\ CliFrame

\* /compact-rca, the operator answering the confirmation with confirm.
CompactRCACommand(confirm) ==
    /\ cli.pc \in PromptPcs
    /\ Dispatch(_compact_rca(CurrentLocal(session), confirm))
    /\ CliFrame

\* /new: a new context is created and becomes current.
NewCommand ==
    /\ cli.pc \in PromptPcs
    /\ Cardinality(DOMAIN session.contexts) < MaxContexts
    /\ session' = add_context(session,
                      ContextIds[Cardinality(DOMAIN session.contexts) + 1])
    /\ rpcs' = <<>>
    /\ console' = None
    /\ saved' = save_session_state(session')
    /\ UNCHANGED <<cli, remote>>
    /\ CliFrame

\* /switch-context to another context c.
SwitchContextCommand(c) ==
    /\ cli.pc \in PromptPcs
    /\ c \in DOMAIN session.contexts
    /\ c # session.current_context_id
    /\ session' = switch_context(session, c)
    /\ rpcs' = <<>>
    /\ console' = None
    /\ saved' = save_session_state(session')
    /\ UNCHANGED <<cli, remote>>
    /\ CliFrame

\* Mutant of UnknownCommand: the unknown name is an error that ends the
\* session.
UnknownCommandAborts ==
    /\ cli.pc \in PromptPcs
    /\ Abort(MsgUnknownCommand)
    /\ rpcs' = <<>>
    /\ UNCHANGED <<session, saved, remote>>
    /\ CliFrame

\* A slash command whose name registry.find does not know: handle_command
\* prints the error and returns CommandResult(), and the prompt loop asks
\* again.
UnknownCommand ==
    /\ cli.pc \in PromptPcs
    /\ Dispatch(Rejected(MsgUnknownCommand))
    /\ CliFrame

\* run_human_in_loop after load_session_state: one context holding the
\* alerts items, no workflow, the first prompt.
SessionStart(items, workflow_id) ==
    /\ cli = [pc |-> "initial_prompt", workflow_id |-> None, iteration |-> 0,
              created |-> 0]
    /\ session = [contexts |-> [c \in {ContextIds[1]} |->
                                   [EmptyLocalContext EXCEPT !.items = items]],
                  current_context_id |-> ContextIds[1],
                  current_workflow_id |-> None]
    /\ saved = session
    /\ remote = [w \in WorkflowIds |-> NoRun]
    /\ config = [workflow_id |-> workflow_id]
    /\ rpcs = <<>>
    /\ console = None

CliInit ==
    /\ Constructed
    /\ queried = FALSE
    /\ NoCall
    /\ \E items \in SUBSET Fingerprints, workflow_id \in {None, CustomId} :
         SessionStart(items, workflow_id)

\* What the operator types at a prompt.
OperatorInput ==
    \/ InitialUserPrompt
    \/ SendUserAction
    \/ CompletedPlainInput
    \/ EndCommand
    \/ CompleteCommand
    \/ \E f \in Fingerprints : AlertsStartRCA(f)
    \/ \E f \in Fingerprints : AlertsRemove(f)
    \/ \E wf \in get_all_workflows(CurrentLocal(session)) : WorkflowsStartEnrichment(wf)
    \/ \E wf \in get_all_workflows(CurrentLocal(session)) : WorkflowsSwitch(wf)
    \/ \E confirm \in BOOLEAN : CompactRCACommand(confirm)
    \/ NewCommand
    \/ \E c \in DOMAIN session.contexts : SwitchContextCommand(c)
    \/ UnknownCommand

\* The orchestrator's own steps.
OrchestratorStep == Poll \/ Sleep \/ ForceEnd

\* The workflow host's steps.
HostStep ==
    \E w \in WorkflowIds :
        \/ HostDiscover(w)
        \/ \E reply \in SessionReplies : HostAgentReturns(w, reply)

CliNext == OperatorInput \/ OrchestratorStep \/ HostStep

CliSpec == CliInit /\ [][CliNext]_vars

\* ------------------------------------------------------------------ C17

\* The current context's compact_rca record is absent or not completed.
CompactNotCompleted ==
    \A m \in CurrentLocal(session).compact_rca : m.status # "completed"

\* The operator asks to start an enrichment RCA for a listed workflow.
EnrichmentAttempt ==
    \E wf \in get_all_workflows(CurrentLocal(session)) :
        WorkflowsStartEnrichment(wf)

\* What the handler prints when it refuses.
EnrichmentRefusals ==
    {MsgNotCompletedRca, MsgCompactMissing, MsgCompactNotCompleted}

\* C17: starting an EnrichmentRCA while the current context's compact_rca
\* record is absent or not completed is rejected: the handler prints its
\* refusal, no creation is requested, so no start-workflow RPC and no
\* start_execution signal is issued, and the session, its Workflow Metadata
\* and the host's runs are unchanged.
C17_EnrichmentGuard ==
    [][EnrichmentAttempt /\ CompactNotCompleted
         => /\ console' \in EnrichmentRefusals
            /\ rpcs' = <<>>
            /\ UNCHANGED <<cli, session, remote>>]_vars

\* An enrichment was refused for a completed RCA because the compact RCA
\* is still running.
C17_Witness ==
    /\ console = MsgCompactNotCompleted
    /\ \E m \in CurrentLocal(session).rca_workflows : m.status = "completed"
    /\ \E m \in CurrentLocal(session).compact_rca : m.status = "running"

\* ------------------------------------------------------------------ C18

\* The operator starts an RCA for alert f and the workflow is started.
RcaStarted(f) == AlertsStartRCA(f) /\ cli'.pc \notin Exits

\* A poll of the driven workflow is answered with state completed.
PollReturnsCompleted ==
    /\ Poll
    /\ rpcs'[1].ok
    /\ remote[cli.workflow_id].state = "completed"

\* C18: starting an RCA for the imported alert f adds an RCA record with
\* status running and alert_fingerprint f for the new workflow to the
\* Local Context; and a poll of a workflow that returns completed turns
\* every RCA record of that workflow into status completed with the run's
\* final_report as its result.
C18_RcaRecordFollowsRemote ==
    /\ [][\A f \in Fingerprints :
            RcaStarted(f)
              => \E m \in CurrentLocal(session').rca_workflows :
                   /\ m.workflow_id = session'.current_workflow_id
                   /\ m.alert_fingerprint = f
                   /\ m.status = "running"]_vars
    /\ [][PollReturnsCompleted
            => \A c \in DOMAIN session.contexts :
                 \A m \in session.contexts[c].rca_workflows :
                   m.workflow_id = cli.workflow_id
                     => [m EXCEPT !.status = "completed",
                                  !.result = [final_report |->
                                      remote[cli.workflow_id].final_report]]
                          \in session'.contexts[c].rca_workflows]_vars

\* ------------------------------------------------------------------ C19

\* The workflows the host holds a run for.
Started == {w \in WorkflowIds : remote[w].state # "absent"}

PlainInput == SendUserAction \/ CompletedPlainInput

\* The provide_action RPC of the step failed in transport.
ProvideActionFailed ==
    /\ Len(rpcs') = 1
    /\ rpcs'[1].name = "provide_action"
    /\ ~rpcs'[1].ok

\* C20: plain input at any prompt shown for the current workflow, the
\* completed prompt included, is sent to the current workflow as one
\* provide_action of type text, and the session goes on.
C20_PlainInputForwarded ==
    [][PlainInput /\ ~ProvideActionFailed
         => /\ rpcs' = <<[name |-> "provide_action",
                          workflow_id |-> session.current_workflow_id,
                          ok |-> TRUE, action_type |-> "text"]>>
            /\ cli'.pc \notin Exits]_vars

\* ------------------------------------------------------------------ C21

\* C21: an unrecognized slash command is reported and changes nothing: no
\* RPC is issued to any workflow, the session (its current context, its
\* current workflow, its records) and the host's runs are unchanged, no
\* workflow is created, and the orchestrator is at the same prompt again.
C21_UnknownCommandIsNoOp ==
    [][UnknownCommand
         => /\ console' = MsgUnknownCommand
            /\ rpcs' = <<>>
            /\ UNCHANGED <<session, remote, cli>>
            /\ cli'.pc \in PromptPcs]_vars

\* An unknown command was reported at the prompt of a workflow awaiting
\* input.
C21_Witness ==
    /\ console = MsgUnknownCommand
    /\ cli.pc = "awaiting_prompt"
    /\ session.current_workflow_id # None
    /\ remote[session.current_workflow_id].state = "awaiting_input"

\* ------------------------------------------------------------------ C22

\* The latest step polled workflow w and the host answered with state s.
Polled(w, s) ==
    /\ Poll
    /\ rpcs' = <<Rpc("get_status", w, TRUE)>>
    /\ remote[w].state = s

\* The latest step sent a provide_action signal.
SendsProvideAction == \E i \in 1..Len(rpcs') : rpcs'[i].name = "provide_action"

\* The latest step sent some signal (not a query, not a start).
SendsSignal ==
    \E i \in 1..Len(rpcs') :
        rpcs'[i].name \in {"provide_action", "end_workflow", "start_execution"}

ForcedEndOfOpenRun ==
    /\ ForceEnd
    /\ rpcs' = <<Rpc("end_workflow", cli.workflow_id, TRUE)>>
    /\ remote'[cli.workflow_id].state \notin {"completed", "failed"}

\* C23: within one drive of a workflow at most max_iterations polls are
\* issued, and once the budget is spent and end_workflow was sent to a
\* workflow that is still not completed or failed, the orchestrator does
\* not go back to polling that workflow.
C23_ForcedEndStopsPolling ==
    /\ [](cli.iteration <= MaxPolls)
    /\ [][ForcedEndOfOpenRun
            => ~(cli'.pc = "poll" /\ cli'.workflow_id = cli.workflow_id)]_vars

\* ------------------------------------------------------------------ C24

\* C24: a poll that reports the driven workflow as failed is reported, and
\* the session goes on: the process does not exit, and the session and the
\* other runs are untouched.
C24_FailedWorkflowKeepsSession ==
    [][Polled(cli.workflow_id, "failed")
         => /\ console' = MsgWorkflowFailed
            /\ cli'.pc \notin Exits
            /\ UNCHANGED <<session, remote>>]_vars

\* ------------------------------------------------------------------ C25

\* A Workflow Host call of the latest step failed.
RpcFailed == \E i \in 1..Len(rpcs') : ~rpcs'[i].ok

\* C25: a failing Workflow Host call (status query, start-workflow,
\* signal) is reported and ends only the poll or command that issued it:
\* the process does not exit.
C25_RpcFailureKeepsSession ==
    [][RpcFailed
         => /\ console' = MsgRpcError
            /\ cli'.pc \notin Exits]_vars

\* ------------------------------------------------------------------ C26

\* The orchestrator is about to poll a workflow or to wait for the
\* operator's input.
AboutToPollOrPrompt == cli.pc \in {"poll"} \cup PromptPcs

\* C26: whenever the orchestrator is about to poll a workflow or to wait
\* for operator input, the session file holds the Session State as it is
\* in memory: every mutation made since the last save has been saved.
C26_SavedBeforePollOrPrompt == AboutToPollOrPrompt => saved = session

\* ------------------------------------------------------------------ C27

\* The Workflow Metadata records of LocalContext lc, by kind.
Records(lc) == <<lc.rca_workflows, lc.enrichment_rca_workflows, lc.compact_rca>>

\* C27: removing an alert from the Local Context removes that Context Item
\* and leaves every Workflow Metadata record of every context as it was,
\* the RCA and EnrichmentRCA records of that alert included, and the list
\* /workflows shows is the same as before.
C27_RemoveAlertKeepsWorkflows ==
    [][\A f \in Fingerprints :
         AlertsRemove(f)
           => /\ f \notin CurrentLocal(session').items
              /\ DOMAIN session'.contexts = DOMAIN session.contexts
              /\ \A c \in DOMAIN session.contexts :
                   Records(session'.contexts[c]) = Records(session.contexts[c])
              /\ get_all_workflows(CurrentLocal(session'))
                   = get_all_workflows(CurrentLocal(session))]_vars

\* The alert of a completed RCA has been removed; the RCA record is still
\* there with its status and result.
C27_Witness ==
    \E f \in Fingerprints :
        /\ f \notin CurrentLocal(session).items
        /\ \E m \in CurrentLocal(session).rca_workflows :
             /\ m.alert_fingerprint = f
             /\ m.status = "completed"
             /\ m.result.final_report # None

\* ================================================================== library
\* Functions of the command-line tool that read nothing but their
\* arguments.  Strings that are searched or compared by prefix are
\* sequences of characters.

\* ------------------------------------------------------------------ bounds

\* Alerts in one AlertFilterParams.alerts.
MaxAlerts == 3

\* ------------------------------------------------------------------ values

\* Alert names.
Watchdog == <<"W", "d">>
PodCrash == <<"P", "c">>
Unknown == <<"u", "n">>

\* s.startswith(prefix)
StartsWith(s, prefix) ==
    /\ Len(prefix) <= Len(s)
    /\ SubSeq(s, 1, Len(prefix)) = prefix

\* An AlertmanagerAlert: labels holds the alertname when the alert has
\* one.
Alert(names, status, fingerprint) ==
    [labels |-> names, status |-> status, fingerprint |-> fingerprint]

\* The alerts Alertmanager may return.
AlertUniverse ==
    {Alert({Watchdog}, "firing", <<"a", "1">>),
     Alert({PodCrash}, "firing", <<"a", "2">>),
     Alert({PodCrash}, "resolved", <<"b", "1">>),
     Alert({}, "firing", <<"P", "c", "9">>)}

\* Entries of a whitelist: an alert name, a fingerprint prefix, a whole
\* fingerprint.
WhitelistEntries == {PodCrash, <<"a">>, <<"b", "1">>}

\* Entries of a blacklist.
BlacklistEntries == {Watchdog, PodCrash, Unknown}

\* status_filter: None, or a string.
StatusFilters == {None, "", "firing", "resolved"}

\* Sequences over S of length at most n.
SeqUpTo(S, n) == UNION {[1..k -> S] : k \in 0..n}

\* Python's truth value of an Optional[str].
Truthy(x) == x # None /\ x # ""

\* ------------------------------------------------------------------ alertmanager.py

\* alert.labels.get("alertname", "unknown")
alert_name(alert) ==
    IF alert.labels = {} THEN Unknown ELSE CHOOSE n \in alert.labels : TRUE

\* Mutant of is_whitelisted: fingerprints are not looked at.
IsWhitelistedByNameOnly(whitelist, name, fingerprint) ==
    \/ whitelist = {}
    \/ name \in whitelist

\* AlertRegistry.is_whitelisted.  The registry's whitelist is None for a
\* whitelist of None or []: the empty set here.
is_whitelisted(whitelist, name, fingerprint) ==
    \/ whitelist = {}
    \/ name \in whitelist
    \/ \E item \in whitelist : StartsWith(fingerprint, item)

\* filter_alerts' loop body: TRUE when the alert is appended to filtered.
Appended(params, alert) ==
    IF params.blacklist # {} /\ alert_name(alert) \in params.blacklist
    THEN FALSE
    ELSE IF Truthy(params.status_filter) /\ alert.status # params.status_filter
    THEN FALSE
    ELSE is_whitelisted(params.whitelist, alert_name(alert), alert.fingerprint)

\* filter_alerts(params): the loop over params.alerts from index i, with
\* filtered as built so far.
RECURSIVE FilterFrom(_, _, _)
FilterFrom(params, i, filtered) ==
    IF i > Len(params.alerts) THEN filtered
    ELSE FilterFrom(params, i + 1,
             IF Appended(params, params.alerts[i])
             THEN Append(filtered, params.alerts[i]) ELSE filtered)

filter_alerts(params) == FilterFrom(params, 1, <<>>)

\* AlertFilterParams
FilterCalls ==
    {[fn |-> "filter_alerts", alerts |-> a, whitelist |-> w, blacklist |-> b,
      status_filter |-> s] :
        a \in SeqUpTo(AlertUniverse, MaxAlerts), w \in SUBSET WhitelistEntries,
        b \in SUBSET BlacklistEntries, s \in StatusFilters}

\* A call of a library function leaves the instance and the session alone.
LibraryFrame == UNCHANGED <<call, instance, queried, client>>

\* filter_alerts returns.
FilterAlerts ==
    /\ call.fn = "filter_alerts"
    /\ ~returned.done
    /\ returned' = [done |-> TRUE, value |-> filter_alerts(call)]
    /\ LibraryFrame

\* ------------------------------------------------------------------ switch_context.py

\* Contexts one session lists for /switch-context.
MaxListed == 2

\* Context ids, context names (the empty string: no name) and search
\* terms.
ContextIdUniverse == {<<"c", "1">>, <<"C", "1">>, <<"a", "c", "1">>, <<"a">>}
ContextNames == {<<>>, <<"a">>, <<"A">>, <<"c", "1">>}
SearchTerms == {<<"c", "1">>, <<"C", "1">>, <<"a">>, <<"A">>, <<"1">>,
                <<"c">>, <<"x">>}

\* str.lower()
LowerChar(c) == CASE c = "A" -> "a" [] c = "C" -> "c" [] OTHER -> c
Lower(s) == [i \in 1..Len(s) |-> LowerChar(s[i])]

\* sub in s
Contains(s, sub) ==
    \E k \in 0..(Len(s) - Len(sub)) : SubSeq(s, k + 1, k + Len(sub)) = sub

\* The for loops of SwitchContextCommand.execute: the index of the first
\* context from i on whose test (matches[i]) succeeds, 0 when there is none.
RECURSIVE FirstFrom(_, _)
FirstFrom(matches, i) ==
    IF i > Len(matches) THEN 0
    ELSE IF matches[i] THEN i
    ELSE FirstFrom(matches, i + 1)

\* Mutant of SelectContext: the id-substring match is tried before the
\* name match.
SelectContextSubstringFirst(contexts, search_term) ==
    LET NameIs == [i \in 1..Len(contexts) |->
                      /\ contexts[i].context_name # <<>>
                      /\ Lower(contexts[i].context_name) = Lower(search_term)]
        IdHas == [i \in 1..Len(contexts) |->
                     Contains(Lower(contexts[i].context_id), Lower(search_term))]
        IdIs == [i \in 1..Len(contexts) |-> contexts[i].context_id = search_term]
    IN IF FirstFrom(IdIs, 1) # 0 THEN FirstFrom(IdIs, 1)
       ELSE IF FirstFrom(IdHas, 1) # 0 THEN FirstFrom(IdHas, 1)
       ELSE FirstFrom(NameIs, 1)

\* The search of SwitchContextCommand.execute: the index of the selected
\* context in the listing, 0 for none.
SelectContext(contexts, search_term) ==
    LET NameIs == [i \in 1..Len(contexts) |->
                      /\ contexts[i].context_name # <<>>
                      /\ Lower(contexts[i].context_name) = Lower(search_term)]
        IdHas == [i \in 1..Len(contexts) |->
                     Contains(Lower(contexts[i].context_id), Lower(search_term))]
        IdIs == [i \in 1..Len(contexts) |-> contexts[i].context_id = search_term]
    IN IF FirstFrom(IdIs, 1) # 0 THEN FirstFrom(IdIs, 1)
       ELSE IF FirstFrom(NameIs, 1) # 0 THEN FirstFrom(NameIs, 1)
       ELSE FirstFrom(IdHas, 1)

\* SwitchContextCommand.execute with the operator typing search_term: the
\* current_context_id afterwards.
SwitchContextExecute(contexts, current_context_id, search_term) ==
    LET selected == SelectContext(contexts, search_term)
    IN IF Len(contexts) <= 1 THEN current_context_id
       ELSE IF search_term = <<>> THEN current_context_id
       ELSE IF selected = 0 THEN current_context_id
       ELSE IF contexts[selected].context_id = current_context_id
       THEN current_context_id
       ELSE contexts[selected].context_id

\* session.contexts in insertion order: the ids are the keys of a dict.
Listings ==
    {l \in SeqUpTo([context_id : ContextIdUniverse, context_name : ContextNames],
                   MaxListed) :
        /\ Len(l) >= 1
        /\ \A i, j \in 1..Len(l) : i # j => l[i].context_id # l[j].context_id}

SwitchCalls ==
    {[fn |-> "switch_context", contexts |-> l,
      current_context_id |-> l[c].context_id, search_term |-> s] :
        <<l, c>> \in {<<l, c>> \in Listings \X (1..MaxListed) : c <= Len(l)},
        s \in SearchTerms}

\* SwitchContextCommand.execute returns.
SwitchContextByTerm ==
    /\ call.fn = "switch_context"
    /\ ~returned.done
    /\ returned' = [done |-> TRUE,
                    value |-> SwitchContextExecute(call.contexts,
                                  call.current_context_id, call.search_term)]
    /\ LibraryFrame

\* ------------------------------------------------------------------ specification

LibInit ==
    /\ Constructed
    /\ queried = FALSE
    /\ NoSession
    /\ call \in FilterCalls \cup SwitchCalls
    /\ returned = [done |-> FALSE, value |-> <<>>]

LibNext == FilterAlerts \/ SwitchContextByTerm

LibSpec == LibInit /\ [][LibNext]_vars

\* ------------------------------------------------------------------ C28

\* The alert passes the filters of params as the specification words them:
\* its name is not blacklisted, its status is the status filter when one is
\* set, and the whitelist is unset (None or empty), or holds its name, or
\* holds a prefix of its fingerprint.
Passes(params, alert) ==
    /\ alert_name(alert) \notin params.blacklist
    /\ params.status_filter \in {None, ""} \/ alert.status = params.status_filter
    /\ \/ params.whitelist = {}
       \/ alert_name(alert) \in params.whitelist
       \/ \E e \in params.whitelist : StartsWith(alert.fingerprint, e)

\* The indices of the alerts of params that pass.
Passing(params) == {i \in 1..Len(params.alerts) : Passes(params, params.alerts[i])}

\* The k-th smallest element of the set of indices I.
Kth(I, k) == CHOOSE i \in I : Cardinality({j \in I : j <= i}) = k

\* The scenario: blacklist [Watchdog], no whitelist, status firing, over
\* Watchdog/firing, PodCrash/firing, PodCrash/resolved.
ScenarioCall ==
    [fn |-> "filter_alerts",
     alerts |-> <<Alert({Watchdog}, "firing", <<"a", "1">>),
                  Alert({PodCrash}, "firing", <<"a", "2">>),
                  Alert({PodCrash}, "resolved", <<"b", "1">>)>>,
     whitelist |-> {}, blacklist |-> {Watchdog}, status_filter |-> "firing"]

\* C28: filter_alerts returns exactly the alerts that pass, each once and
\* in input order; in the scenario it returns exactly the PodCrash/firing
\* alert.
C28_FilterAlerts ==
    (call.fn = "filter_alerts" /\ returned.done)
      => /\ Len(returned.value) = Cardinality(Passing(call))
         /\ \A k \in 1..Len(returned.value) :
              returned.value[k] = call.alerts[Kth(Passing(call), k)]
         /\ call = ScenarioCall
              => returned.value = <<Alert({PodCrash}, "firing", <<"a", "2">>)>>

\* filter_alerts has returned in the scenario.
C28_Witness == call = ScenarioCall /\ returned.done

\* ------------------------------------------------------------------ C29

\* The context the specification selects for a search term: the one whose
\* id is the term, else the first whose name is the term up to case, else
\* the first whose id contains the term up to case; 0 for none.
Selected(contexts, term) ==
    LET I == 1..Len(contexts)
        ById == {i \in I : contexts[i].context_id = term}
        ByName == {i \in I : /\ contexts[i].context_name # <<>>
                             /\ Lower(contexts[i].context_name) = Lower(term)}
        BySubstring == {i \in I : Contains(Lower(contexts[i].context_id),
                                           Lower(term))}
    IN IF ById # {} THEN Kth(ById, 1)
       ELSE IF ByName # {} THEN Kth(ByName, 1)
       ELSE IF BySubstring # {} THEN Kth(BySubstring, 1)
       ELSE 0

\* C29: /switch-context with a search term, in a session of several
\* contexts, makes the selected context current; when no context is
\* selected, or the selected one is already current, the current context
\* is left as it was.
C29_SwitchContextPriority ==
    (call.fn = "switch_context" /\ returned.done /\ Len(call.contexts) > 1)
      => LET sel == Selected(call.contexts, call.search_term)
         IN returned.value = IF sel = 0 THEN call.current_context_id
                             ELSE call.contexts[sel].context_id

\* The three rules disagree and the name match wins over the id-substring
\* match: no id is the term, the second context's name is, the first
\* context's id contains it, and the second context became current.
C29_Witness ==
    /\ call.fn = "switch_context"
    /\ returned.done
    /\ Len(call.contexts) = 2
    /\ call.search_term = <<"A">>
    /\ call.contexts[1].context_id = <<"a", "c", "1">>
    /\ call.contexts[1].context_name = <<>>
    /\ call.contexts[2].context_name = <<"a">>
    /\ call.current_context_id = call.contexts[1].context_id
    /\ returned.value = call.contexts[2].context_id

\* ------------------------------------------------------------------ C30

\* The run loop returns in this step with termination requested.
ReturnsTerminated == pc # "returned" /\ pc' = "returned" /\ should_end

\* C30: whenever the run loop returns with termination requested, at the
\* top of a turn or on resume from any of the three awaiting_input
\* suspensions, final_report is the terminated-by-operator result (or, the
\* turn budget being spent at the top of the loop, the incomplete-task
\* result), never the agent's last reply.  (The exit before the first turn
\* is the case of C9.)
C30_TerminatedReport ==
    [][ReturnsTerminated /\ pc # "wait_start"
         => final_report'.kind \in {"ended_by_user", "max_iterations"}]_vars

\* ------------------------------------------------------------------ C31

\* The run loop resumes from an awaiting_input suspension and no
\* termination was requested.
ResumesWithoutEnd == Resume /\ ~should_end

\* The transcript entries that carry an operator action.
UserEntries(h) == {i \in 1..Len(h) : h[i].tag \in UserTags}

\* C31: whenever the run loop resumes from an awaiting_input suspension
\* without a termination request, pending_action is non-null and is the
\* most recently delivered action; that delivery is folded into the
\* transcript in this step, as one entry carrying its content and for the
\* first time, and pending_action is null again once the step is over, the
\* state being executing again or the turn budget spent.
C31_ActionConsumedOnce ==
    [][ResumesWithoutEnd
         => /\ pending_action # NoAction
            /\ pending_action.delivery = Len(delivered)
            /\ TimesFolded(pending_action.delivery) = 0
            /\ folded' = Append(folded, pending_action.delivery)
            /\ Cardinality(UserEntries(conversation_history'))
                 = Cardinality(UserEntries(conversation_history)) + 1
            /\ conversation_history'[Len(conversation_history')].text
                 = pending_action.content
            /\ pending_action' = NoAction
            /\ state' \in {"executing", "completed"}
            /\ state' = "executing" => current_question' = None]_vars

\* The loop is executing again after folding the second delivery; the
\* first delivery arrived early, while the agent call was in flight, and
\* was overwritten.
C31_Witness ==
    /\ state = "executing"
    /\ pc = "agent_call"
    /\ folded = <<2>>
    /\ delivered[1].at = "executing"
    /\ pending_action = NoAction

\* ------------------------------------------------------------------ C32

\* The ids of the RCA records of the current context that are completed.
CompletedRcaIds ==
    {m.workflow_id : m \in get_completed_rca_workflows(CurrentLocal(session))}

\* The latest step asked the host to start a workflow.
RequestsWorkflow == \E i \in 1..Len(rpcs') : rpcs'[i].name = "start_workflow"

\* The latest step created a workflow: start-workflow and start_execution
\* both succeeded.
CreatesWorkflow ==
    /\ Len(rpcs') = 2
    /\ rpcs'[1].name = "start_workflow" /\ rpcs'[1].ok
    /\ rpcs'[2].name = "start_execution" /\ rpcs'[2].ok

\* C32: /compact-rca asks for a workflow exactly when the current context
\* has a completed RCA record and the operator confirms; the CompactRCA
\* record of the workflow it creates lists as source_workflow_ids exactly
\* the ids of the RCA records completed at that moment; and with no
\* completed RCA record the command reports that, no workflow is created
\* and the session with its contexts is unchanged.
C32_CompactFromCompletedOnly ==
    [][\A confirm \in BOOLEAN :
         CompactRCACommand(confirm)
           => /\ RequestsWorkflow <=> (confirm /\ CompletedRcaIds # {})
              /\ CreatesWorkflow
                   => CurrentLocal(session').compact_rca =
                        {[workflow_id |-> session'.current_workflow_id,
                          source_workflow_ids |-> CompletedRcaIds,
                          status |-> "running",
                          result |-> WorkflowResult(None)]}
              /\ CompletedRcaIds = {}
                   => /\ console' = MsgNoCompletedRca
                      /\ UNCHANGED <<session, remote, cli>>]_vars

\* A CompactRCA workflow is being driven whose record lists the completed
\* RCA of the context as its source.
C32_Witness ==
    /\ \E m \in CurrentLocal(session).compact_rca :
         /\ m.workflow_id = session.current_workflow_id
         /\ m.status = "running"
         /\ m.source_workflow_ids = CompletedRcaIds
         /\ m.source_workflow_ids # {}
    /\ cli.pc = "poll"

\* ------------------------------------------------------------------ C33

\* The session with its scheduling: an RPC the orchestrator awaits returns
\* (with a result or an error) and a sleep ends, so a poll, a sleep or a
\* forced end that can be taken is taken; nothing obliges the operator to
\* type, nor the host to finish an agent call.
CliFairSpec == CliSpec /\ WF_vars(Poll) /\ WF_vars(Sleep) /\ WF_vars(ForceEnd)

\* Every Workflow Metadata record of workflow w, in whatever context, is
\* completed and carries a result.
Recorded(w) ==
    \A c \in DOMAIN session.contexts :
        \A m \in get_all_workflows(session.contexts[c]) :
            m.workflow_id = w => m.status = "completed"

\* /complete has just sent end_workflow to workflow w from the
\* awaiting_input prompt, and the loop goes round: to its next poll, or, the
\* poll budget being spent, to the forced end.
CompleteSent(w) ==
    /\ cli.workflow_id = w
    /\ rpcs = <<Rpc("end_workflow", w, TRUE)>>
    /\ \/ cli.pc = "force_end"
       \/ cli.pc = "poll" /\ cli.iteration >= 2

\* The orchestrator has seen workflow w completed, has recorded it and is
\* at the prompt of the completed workflow.
CompletionObserved(w) ==
    /\ cli.pc = "completed_prompt"
    /\ cli.workflow_id = w
    /\ Recorded(w)

\* C33: /complete at the awaiting_input prompt sends end_workflow to the
\* current workflow and the process goes on; the run is completed by then,
\* and the orchestrator then observes it on a later poll, records the
\* completion in the workflow's records and is at a prompt again (unless a
\* Workflow Host call fails on the way, which ends the process: C25).
C33_CompleteThenObserved ==
    /\ [][CompleteCommand /\ ~RpcFailed
            => /\ rpcs' = <<Rpc("end_workflow", session.current_workflow_id, TRUE)>>
               /\ cli'.pc \notin Exits
               /\ remote'[cli.workflow_id].state = "completed"]_vars
    /\ \A w \in WorkflowIds :
         CompleteSent(w) ~> (CompletionObserved(w) \/ cli.pc = "exit_error")

\* ------------------------------------------------------------------ C34

\* load_session_state: the Session State the session file holds.
load_session_state == saved

\* The process has ended and the operator runs the tool again:
\* run_human_in_loop loads the session file and asks at the first prompt.
\* Workflow ids are generated from the clock, so the count of creations
\* goes on.
Restart ==
    /\ cli.pc \in Exits
    /\ cli' = [cli EXCEPT !.pc = "initial_prompt", !.workflow_id = None,
                          !.iteration = 0]
    /\ session' = load_session_state
    /\ rpcs' = <<>>
    /\ console' = None
    /\ UNCHANGED <<saved, remote>>
    /\ CliFrame

\* The session over several runs of the tool.
CliRestartNext == CliNext \/ Restart

CliRestartSpec == CliInit /\ [][CliRestartNext]_vars

\* The session's current workflow has a run that is neither completed nor
\* failed.
CurrentWorkflowOpen ==
    /\ session.current_workflow_id # None
    /\ remote[session.current_workflow_id].state
         \in {"pending", "executing", "awaiting_input"}

\* C34: whenever the operator issues /end while the session's current
\* workflow is neither completed nor failed, the step sends exactly one
\* RPC, an end_workflow signal to that workflow, the process then exits,
\* and no other run is touched.
C34_EndClosesCurrentWorkflow ==
    [][EndCommand /\ CurrentWorkflowOpen
         => /\ Len(rpcs') = 1
            /\ rpcs'[1].name = "end_workflow"
            /\ rpcs'[1].workflow_id = session.current_workflow_id
            /\ cli'.pc \in Exits
            /\ \A w \in WorkflowIds :
                 w # session.current_workflow_id => remote'[w] = remote[w]]_vars

\* ------------------------------------------------------------------ C35

\* The latest step ran a command that asks for a workflow with Workflow
\* Metadata: an RCA, a CompactRCA or an EnrichmentRCA.
TypedCreation ==
    \/ \E f \in Fingerprints : AlertsStartRCA(f)
    \/ CompactRCACommand(TRUE)
    \/ \E wf \in get_all_workflows(CurrentLocal(session)) :
         WorkflowsStartEnrichment(wf)

\* C35: a workflow the host has started gets its start_execution in the
\* same stretch of the orchestrator, right after the start-workflow RPC
\* returned and to the same id; start_execution is sent at no other place,
\* so once per workflow created; provide_action and end_workflow are sent
\* only to a run that has received start_execution; and a created workflow
\* that carries Workflow Metadata has its record in the current Local
\* Context when the orchestrator stands before its first poll of it.
C35_StartedOnceBeforeDriven ==
    /\ [][\A i \in 1..Len(rpcs') :
            (rpcs'[i].name = "start_workflow" /\ rpcs'[i].ok)
              => /\ i = 1
                 /\ Len(rpcs') = 2
                 /\ rpcs'[2].name = "start_execution"
                 /\ rpcs'[2].workflow_id = rpcs'[1].workflow_id]_vars
    /\ [][\A i \in 1..Len(rpcs') :
            rpcs'[i].name = "start_execution"
              => /\ i = 2
                 /\ rpcs'[1] = Rpc("start_workflow", rpcs'[2].workflow_id, TRUE)]_vars
    /\ [][\A i \in 1..Len(rpcs') :
            rpcs'[i].name \in {"provide_action", "end_workflow"}
              => remote[rpcs'[i].workflow_id].started]_vars
    /\ [][TypedCreation /\ CreatesWorkflow
            => /\ Tracks(CurrentLocal(session'), rpcs'[1].workflow_id)
               /\ cli'.pc = "poll"
               /\ cli'.iteration = 1
               /\ cli'.workflow_id = rpcs'[1].workflow_id]_vars

\* An answer has just been sent to a tracked workflow that had received
\* its start_execution.
C35_Witness ==
    /\ Len(rpcs) = 1
    /\ rpcs[1].name = "provide_action"
    /\ rpcs[1].ok
    /\ remote[rpcs[1].workflow_id].started
    /\ Tracks(CurrentLocal(session), rpcs[1].workflow_id)

\* ------------------------------------------------------------------ C36

\* C36: when a poll reports the driven workflow completed, every Workflow
\* Metadata record of that workflow, of whatever kind and in whatever
\* context holds it, has status completed after the step, also when
\* /new or /switch-context changed the current context since the record
\* was made.
C36_CompletionReachesHoldingContext ==
    [][PollReturnsCompleted
         => \A c \in DOMAIN session'.contexts :
              \A m \in get_all_workflows(session'.contexts[c]) :
                m.workflow_id = cli.workflow_id => m.status = "completed"]_vars

\* ------------------------------------------------------------------ C37

\* C37: every start-workflow RPC of a session names a workflow id the host
\* holds no run for, that is, an id no earlier creation of the session
\* used; and a creation leaves the RCA and EnrichmentRCA records of the
\* earlier workflows in place.
C37_FreshWorkflowIds ==
    [][\A i \in 1..Len(rpcs') :
         rpcs'[i].name = "start_workflow"
           => /\ rpcs'[i].workflow_id \notin Started
              /\ \A c \in DOMAIN session.contexts :
                   /\ session.contexts[c].rca_workflows
                        \subseteq session'.contexts[c].rca_workflows
                   /\ session.contexts[c].enrichment_rca_workflows
                        \subseteq session'.contexts[c].enrichment_rca_workflows]_vars

\* ------------------------------------------------------------------ C38

\* C38: a get_status poll of a workflow is never followed directly by
\* another poll of the same workflow: after a poll, whatever state it
\* returned, the orchestrator sleeps, waits for the operator or leaves the
\* loop.
C38_NoBackToBackPolls ==
    [][Poll => ~(cli'.pc = "poll" /\ cli'.workflow_id = cli.workflow_id)]_vars

\* ------------------------------------------------------------------ C39

\* C39: when the start-workflow RPC or the start_execution signal of the
\* creation of an RCA, CompactRCA or EnrichmentRCA workflow fails, the
\* Session State is as before: no Workflow Metadata record was added to
\* any Local Context and the current workflow id is unchanged, in memory
\* and in the session file.
C39_FailedCreationLeavesNoRecord ==
    [][TypedCreation /\ RpcFailed
         => /\ UNCHANGED session
            /\ saved' = session]_vars

\* The start_execution signal of a workflow asked for by a command at the
\* prompt of another workflow has failed: the host holds the new run, the
\* session has no record of it and its current workflow is the other one.
C39_Witness ==
    /\ Len(rpcs) = 2
    /\ rpcs[2].name = "start_execution"
    /\ ~rpcs[2].ok
    /\ session.current_workflow_id \notin {None, rpcs[1].workflow_id}
    /\ remote[rpcs[1].workflow_id].state = "pending"
    /\ \A c \in DOMAIN session.contexts :
         ~Tracks(session.contexts[c], rpcs[1].workflow_id)

\* ------------------------------------------------------------------ C40

\* The records of context c of Session State s, in the flattened view, or
\* none if s has no such context.
RecordsIn(s, c) ==
    IF c \in DOMAIN s.contexts THEN get_all_workflows(s.contexts[c]) ELSE {}

\* C40: a Workflow Metadata record that a step makes or changes is either
\* a record with status running of the workflow the step has just created,
\* or a record with status completed of the workflow whose get_status poll
\* has just returned completed, a record of that workflow having been there
\* before; no other step makes a record or changes the status of one.
C40_CacheNeverAhead ==
    [][\A c \in DOMAIN session'.contexts :
         \A m \in RecordsIn(session', c) \ RecordsIn(session, c) :
           \/ /\ m.status = "running"
              /\ CreatesWorkflow
              /\ m.workflow_id = rpcs'[1].workflow_id
           \/ /\ m.status = "completed"
              /\ PollReturnsCompleted
              /\ m.workflow_id = cli.workflow_id
              /\ [m EXCEPT !.status = "running"] \in RecordsIn(session, c)]_vars

\* A CompactRCA record is completed: its workflow was polled completed at
\* the prompt where the session now is, while the host holds the run as
\* completed.
C40_Witness ==
    /\ cli.pc = "completed_prompt"
    /\ remote[cli.workflow_id].state = "completed"
    /\ \E m \in CurrentLocal(session).compact_rca :
         /\ m.workflow_id = cli.workflow_id
         /\ m.status = "completed"
         /\ m.result.final_report = remote[cli.workflow_id].final_report

====
